---- MODULE Spec2Model ----
(***************************************************************************)
(* Live-detection session of frontend/src/App.jsx (React 18 function       *)
(* component App): startLive / stopLive / processLiveFrame, the            *)
(* [liveFps, liveRunning] effect that owns the interval timer, the         *)
(* unmount cleanup, and the page switch that mounts and unmounts the       *)
(* <video> and <canvas> elements.                                          *)
(*                                                                         *)
(* React state is modelled by the variables liveRunning, liveFps,          *)
(* liveConf, mirror and page.  A handler's state updates are committed     *)
(* (re-render plus passive effects) at the end of the step that made them. *)
(* Closures are modelled by value: a timer carries the liveConf and mirror *)
(* of the render whose processLiveFrame it was given, a pending startLive  *)
(* carries the liveFps, liveConf and mirror of the render it was invoked   *)
(* from, and a request carries those of the timer that issued it.          *)
(***************************************************************************)
EXTENDS Integers, FiniteSets, Sequences, TLC

\* ---------------------------------------------------------------- bounds
\* startLive invocations over a run (caps the run's length)
MaxStarts == 2
\* detection requests outstanding at once (caps the tick's fan-out)
MaxInflight == 2
\* uses of the FPS, Conf and Mirror controls over a run
MaxConfigChanges == 2

\* ------------------------------------------------------- input domains
\* values of the FPS slider (min 1, max 10, step 1) used by the model
FpsValues == {2, 10}
\* values of the Conf slider, in hundredths (0.25 is the initial value)
ConfValues == {25, 50}
Pages == {"upload", "live"}
\* video.videoWidth x video.videoHeight of the camera frames
Frame == [w |-> 640, h |-> 480]
\* data.detections of a successful /detect/live response; a confidence is
\* held in thousandths (0.85 is 850)
SampleDet == [box |-> [x1 |-> 100, y1 |-> 50, x2 |-> 200, y2 |-> 150],
              class |-> "person", confidence |-> 850]
DetectionLists == {<<>>, <<SampleDet>>}

\* a new <canvas> element: the HTML default size, nothing drawn
BlankCanvas == [w |-> 300, h |-> 150, boxes |-> <<>>]

VARIABLES
    mounted,      \* the App component is mounted
    page,         \* useState('upload')
    liveRunning,  \* useState(false)
    liveFps,      \* useState(2)
    liveConf,     \* useState(0.25), in hundredths
    mirror,       \* useState(true)
    srcObject,    \* videoRef.current.srcObject: a stream id, 0 for null
    overlay,      \* what canvasRef.current shows
    intervalRef,  \* intervalRef.current: a timer id, 0 for null
    timers,       \* the active setInterval timers
    streams,      \* the camera streams whose tracks are live
    starts,       \* startLive invocations suspended at an await
    requests,     \* processLiveFrame invocations suspended at an await
    toasted,      \* number of showToast calls made by the step taken last
    drawn,        \* arguments of the drawDetections call on a mounted canvas
                  \* made by the step taken last, <<>> when it made none
    file,         \* useState(null): <<>> for null, <<f>> for the File f
    preview,      \* useState(''): <<>>, or <<f>> for the object URL of f
    error,        \* useState('')
    loading,      \* useState(false)
    result,       \* useState(null): <<>>, or <<data>> of an ok /detect response
    uploads,      \* handleSubmit invocations suspended at an await
    nStarts,      \* number of startLive invocations so far
    nConfig,      \* number of uses of the FPS, Conf and Mirror controls so far
    lastOp        \* the step taken last

\* the state of the upload form
uploadVars == <<file, preview, error, loading, result, uploads>>

\* the state of the live section
liveVars == <<liveRunning, liveFps, liveConf, mirror, srcObject, overlay,
              intervalRef, timers, streams, starts, requests, nStarts, nConfig>>

vars == <<mounted, page, liveRunning, liveFps, liveConf, mirror, srcObject,
          overlay, intervalRef, timers, streams, starts, requests, toasted,
          drawn, file, preview, error, loading, result, uploads,
          nStarts, nConfig, lastOp>>

\* videoRef.current / canvasRef.current are set while the live section is rendered
HasVideo == mounted /\ page = "live"
HasCanvas == mounted /\ page = "live"

Max(a, b) == IF a >= b THEN a ELSE b

\* Math.floor(1000 / n) in the place of Math.round
Floor1000Over(n) == 1000 \div n

\* Math.round(1000 / n) for an integer n >= 1 (round half up)
Round1000Over(n) == (2000 + n) \div (2 * n)

\* Math.max(100, Math.round(1000 / Math.max(1, liveFps)))
Interval(fps) == Max(100, Round1000Over(Max(1, fps)))

\* setInterval returns an id no live handle refers to
NewTimerId(tm, ref) ==
    CHOOSE i \in 1..(Cardinality(tm) + 2) :
        /\ i # ref
        /\ \A t \in tm : t.id # i
        /\ \A j \in 1..(i - 1) : j = ref \/ \E t \in tm : t.id = j

\* clearInterval(id)
ClearInterval(tm, id) == {t \in tm : t.id # id}

\* setInterval(processLiveFrame, interval) with the closure of one render
MkTimer(id, fps, conf, mir) ==
    [id |-> id, ms |-> Interval(fps), conf |-> conf, mirror |-> mir]

\* getUserMedia resolves with a stream no one holds yet
NewStreamId == CHOOSE i \in 1..(Cardinality(streams) + 1) : i \notin streams
NewRequestId ==
    CHOOSE i \in 1..(Cardinality(requests) + 1) : \A r \in requests : r.id # i

\* the [liveFps, liveRunning] effect without its `if (!liveRunning) return`
FpsEffectNoGuard(oldRun, oldFps, newRun, newFps, tm, ref, conf, mir) ==
    IF oldRun = newRun /\ oldFps = newFps
    THEN [timers |-> tm, ref |-> ref]
    ELSE LET tm1 == IF ref # 0 THEN ClearInterval(tm, ref) ELSE tm
             id == NewTimerId(tm1, ref)
         IN  [timers |-> tm1 \cup {MkTimer(id, newFps, conf, mir)}, ref |-> id]

\* useEffect(..., [liveFps, liveRunning]) across one commit: the previous
\* effect's cleanup (it exists when that render had liveRunning) and then the
\* effect of the new render.  Gives the timers and intervalRef afterwards.
FpsEffect(oldRun, oldFps, newRun, newFps, tm, ref, conf, mir) ==
    IF oldRun = newRun /\ oldFps = newFps
    THEN [timers |-> tm, ref |-> ref]
    ELSE LET tm1 == IF oldRun /\ ref # 0 THEN ClearInterval(tm, ref) ELSE tm
         IN  IF ~newRun
             THEN [timers |-> tm1, ref |-> ref]
             ELSE LET tm2 == IF ref # 0 THEN ClearInterval(tm1, ref) ELSE tm1
                      id == NewTimerId(tm2, ref)
                  IN  [timers |-> tm2 \cup {MkTimer(id, newFps, conf, mir)},
                       ref |-> id]

\* stopLive's work on the refs: the interval, the stream, the overlay.
\* hasVideo / hasCanvas: whether videoRef.current / canvasRef.current is set.
StopLiveRefs(tm, ref, hasVideo, hasCanvas) ==
    [timers |-> IF ref # 0 THEN ClearInterval(tm, ref) ELSE tm,
     ref |-> 0,
     streams |-> IF hasVideo /\ srcObject # 0 THEN streams \ {srcObject}
                 ELSE streams,
     srcObject |-> IF hasVideo THEN 0 ELSE srcObject,
     overlay |-> IF hasCanvas THEN [overlay EXCEPT !.boxes = <<>>]
                 ELSE overlay]

\* r's call failed: the requests of the running session outstanding beside it
\* are requests of a session that has raised its error toast
MarkSiblings(rs, r) ==
    {[q EXCEPT !.sibFailed = @ \/ (~r.stopped /\ ~q.stopped)] : q \in rs}

\* every request outstanding when stopLive runs belongs to a stopped session
MarkStopped(rs) == {[r EXCEPT !.stopped = TRUE] : r \in rs}

Init ==
    /\ mounted = TRUE
    /\ page = "upload"
    /\ liveRunning = FALSE
    /\ liveFps = 2
    /\ liveConf = 25
    /\ mirror = TRUE
    /\ srcObject = 0
    /\ overlay = BlankCanvas
    /\ intervalRef = 0
    /\ timers = {}
    /\ streams = {}
    /\ starts = {}
    /\ requests = {}
    /\ toasted = 0
    /\ drawn = <<>>
    /\ file = <<>>
    /\ preview = <<>>
    /\ error = ""
    /\ loading = FALSE
    /\ result = <<>>
    /\ uploads = {}
    /\ nStarts = 0
    /\ nConfig = 0
    /\ lastOp = "Init"

\* nav buttons: setPage(p).  Leaving the live page unmounts <video> and
\* <canvas>; entering it mounts new ones (no srcObject, nothing drawn).
SetPage(p) ==
    /\ mounted /\ p # page
    /\ page' = p
    /\ srcObject' = 0
    /\ overlay' = BlankCanvas
    /\ lastOp' = "SetPage"
    /\ toasted' = 0
    /\ drawn' = <<>>
    /\ UNCHANGED <<uploadVars, nConfig, mounted, liveRunning, liveFps, liveConf, mirror,
                   intervalRef, timers, streams, starts, requests, nStarts>>

\* liveFps slider: setLiveFps(f); the commit runs the [liveFps, liveRunning] effect
SetFps(f) ==
    /\ nConfig < MaxConfigChanges
    /\ nConfig' = nConfig + 1
    /\ HasVideo /\ f # liveFps
    /\ LET e == FpsEffect(liveRunning, liveFps, liveRunning, f, timers,
                          intervalRef, liveConf, mirror)
       IN  /\ timers' = e.timers
           /\ intervalRef' = e.ref
    /\ liveFps' = f
    /\ lastOp' = "SetFps"
    /\ toasted' = 0
    /\ drawn' = <<>>
    /\ UNCHANGED <<uploadVars, mounted, page, liveRunning, liveConf, mirror, srcObject,
                   overlay, streams, starts, requests, nStarts>>

\* liveConf slider: setLiveConf(c); no effect depends on liveConf
SetConf(c) ==
    /\ nConfig < MaxConfigChanges
    /\ nConfig' = nConfig + 1
    /\ HasVideo /\ c # liveConf
    /\ liveConf' = c
    /\ lastOp' = "SetConf"
    /\ toasted' = 0
    /\ drawn' = <<>>
    /\ UNCHANGED <<uploadVars, mounted, page, liveRunning, liveFps, mirror, srcObject,
                   overlay, intervalRef, timers, streams, starts, requests,
                   nStarts>>

\* Mirror checkbox: setMirror(b); no effect depends on mirror
SetMirror(b) ==
    /\ nConfig < MaxConfigChanges
    /\ nConfig' = nConfig + 1
    /\ HasVideo /\ b # mirror
    /\ mirror' = b
    /\ lastOp' = "SetMirror"
    /\ toasted' = 0
    /\ drawn' = <<>>
    /\ UNCHANGED <<uploadVars, mounted, page, liveRunning, liveFps, liveConf, srcObject,
                   overlay, intervalRef, timers, streams, starts, requests,
                   nStarts>>

\* Start Live button (rendered while !liveRunning): startLive up to its
\* first await, navigator.mediaDevices.getUserMedia
StartClick ==
    /\ HasVideo /\ ~liveRunning
    /\ nStarts < MaxStarts
    /\ nStarts' = nStarts + 1
    /\ starts' = starts \cup {[id |-> nStarts + 1, pc |-> "getUserMedia",
                               fps |-> liveFps, conf |-> liveConf,
                               mirror |-> mirror]}
    /\ lastOp' = "StartClick"
    /\ toasted' = 0
    /\ drawn' = <<>>
    /\ UNCHANGED <<uploadVars, nConfig, mounted, page, liveRunning, liveFps, liveConf, mirror,
                   srcObject, overlay, intervalRef, timers, streams, requests>>

\* startLive's catch block: showToast, setLiveRunning(false), and the commit
StartCatch(s) ==
    /\ starts' = starts \ {s}
    /\ toasted' = 1
    /\ drawn' = <<>>
    /\ liveRunning' = FALSE
    /\ LET e == FpsEffect(liveRunning, liveFps, FALSE, liveFps, timers,
                          intervalRef, liveConf, mirror)
       IN  /\ timers' = e.timers
           /\ intervalRef' = e.ref
    /\ UNCHANGED <<uploadVars, nConfig, mounted, page, liveFps, liveConf, mirror, srcObject,
                   overlay, streams, nStarts, requests>>

\* startLive after its awaits: setLiveRunning(true), setInterval with the
\* liveFps and processLiveFrame of the render it was invoked from, and the
\* commit.  A state setter of an unmounted component does nothing.
StartRun(s) ==
    LET id1 == NewTimerId(timers, intervalRef)
        tm1 == timers \cup {MkTimer(id1, s.fps, s.conf, s.mirror)}
        e == IF mounted
             THEN FpsEffect(liveRunning, liveFps, TRUE, liveFps, tm1, id1,
                            liveConf, mirror)
             ELSE [timers |-> tm1, ref |-> id1]
    IN  /\ starts' = starts \ {s}
        /\ liveRunning' = mounted
        /\ timers' = e.timers
        /\ intervalRef' = e.ref

\* getUserMedia rejects but the rejection is swallowed before the catch
\* block: startLive runs on to setLiveRunning(true) and setInterval
GetUserMediaRejectRuns(s) ==
    /\ s \in starts /\ s.pc = "getUserMedia"
    /\ StartRun(s)
    /\ toasted' = 1
    /\ drawn' = <<>>
    /\ lastOp' = "GetUserMediaReject"
    /\ UNCHANGED <<uploadVars, nConfig, mounted, page, liveFps, liveConf, mirror,
                   srcObject, overlay, streams, requests, nStarts>>

\* getUserMedia rejects (permission denied, no device)
GetUserMediaReject(s) ==
    /\ s \in starts /\ s.pc = "getUserMedia"
    /\ StartCatch(s)
    /\ lastOp' = "GetUserMediaReject"

\* getUserMedia resolves and videoRef.current is set: srcObject = stream,
\* then await video.play()
GetUserMediaAttach(s) ==
    /\ s \in starts /\ s.pc = "getUserMedia"
    /\ HasVideo
    /\ streams' = streams \cup {NewStreamId}
    /\ srcObject' = NewStreamId
    /\ starts' = (starts \ {s}) \cup {[s EXCEPT !.pc = "play"]}
    /\ lastOp' = "GetUserMediaAttach"
    /\ toasted' = 0
    /\ drawn' = <<>>
    /\ UNCHANGED <<uploadVars, nConfig, mounted, page, liveRunning, liveFps, liveConf, mirror,
                   overlay, intervalRef, timers, requests, nStarts>>

\* getUserMedia resolves and videoRef.current is null: the stream is attached
\* to nothing and startLive runs on to setInterval
GetUserMediaDetached(s) ==
    /\ s \in starts /\ s.pc = "getUserMedia"
    /\ ~HasVideo
    /\ streams' = streams \cup {NewStreamId}
    /\ StartRun(s)
    /\ lastOp' = "GetUserMediaDetached"
    /\ toasted' = 0
    /\ drawn' = <<>>
    /\ UNCHANGED <<uploadVars, nConfig, mounted, page, liveFps, liveConf, mirror, srcObject,
                   overlay, requests, nStarts>>

\* video.play() resolves
PlayResolve(s) ==
    /\ s \in starts /\ s.pc = "play"
    /\ StartRun(s)
    /\ lastOp' = "PlayResolve"
    /\ toasted' = 0
    /\ drawn' = <<>>
    /\ UNCHANGED <<uploadVars, nConfig, mounted, page, liveFps, liveConf, mirror, srcObject,
                   overlay, streams, requests, nStarts>>

\* video.play() rejects
PlayReject(s) ==
    /\ s \in starts /\ s.pc = "play"
    /\ StartCatch(s)
    /\ lastOp' = "PlayReject"

\* stopLive and the commit of its setLiveRunning(false)
StopLive ==
    LET r == StopLiveRefs(timers, intervalRef, HasVideo, HasCanvas)
        e == FpsEffect(liveRunning, liveFps, FALSE, liveFps, r.timers, r.ref,
                       liveConf, mirror)
    IN  /\ liveRunning' = FALSE
        /\ timers' = e.timers
        /\ intervalRef' = e.ref
        /\ streams' = r.streams
        /\ srcObject' = r.srcObject
        /\ overlay' = r.overlay

\* a stopLive that also puts the FPS, Conf and Mirror controls back to their
\* initial values
StopClickResets ==
    /\ HasVideo /\ liveRunning
    /\ StopLive
    /\ requests' = MarkStopped(requests)
    /\ liveFps' = 2 /\ liveConf' = 25 /\ mirror' = TRUE
    /\ lastOp' = "StopClick"
    /\ toasted' = 0
    /\ drawn' = <<>>
    /\ UNCHANGED <<uploadVars, nConfig, mounted, page, starts, nStarts>>

\* Stop Live button (rendered while liveRunning)
StopClick ==
    /\ HasVideo /\ liveRunning
    /\ StopLive
    /\ requests' = MarkStopped(requests)
    /\ lastOp' = "StopClick"
    /\ toasted' = 0
    /\ drawn' = <<>>
    /\ UNCHANGED <<uploadVars, nConfig, mounted, page, liveFps, liveConf, mirror, starts, nStarts>>

\* getConfidenceColor with inclusive thresholds (>= 0.7, >= 0.4)
getConfidenceColorInclusive(confidence) ==
    IF confidence >= 700 THEN "#28a745"
    ELSE IF confidence >= 400 THEN "#ffc107"
    ELSE "#dc3545"

\* getConfidenceColor, confidence in thousandths
getConfidenceColor(confidence) ==
    IF confidence > 700 THEN "#28a745"
    ELSE IF confidence > 400 THEN "#ffc107"
    ELSE "#dc3545"

\* (confidence * 100).toFixed(0): the whole percent nearest to the
\* confidence, the larger one of two equally near
ToFixed0Percent(confidence) == (confidence + 5) \div 10

\* getConfidenceColor of the upload-only component App.js
getConfidenceColorAppJs(confidence) ==
    IF confidence > 700 THEN "#28a745"
    ELSE IF confidence > 400 THEN "#ffc107"
    ELSE "#dc3545"

\* the confidence bar of one detection in the upload result view
ConfidenceFillColor(det) == getConfidenceColor(det.confidence)

\* a mirror that reflects each edge in place: mx1 = width - x1,
\* mx2 = width - x2
MirrorXUnswapped(width, b) ==
    [b EXCEPT !.x1 = width - b.x1, !.x2 = width - b.x2]

\* a mirror that moves the left edge only: mx1 = width - x2, mx2 = x2
MirrorXLeftOnly(width, b) ==
    [b EXCEPT !.x1 = width - b.x2]

\* the mirrored x-coordinates of a box: mx1 = width - x2, mx2 = width - x1
MirrorX(width, b) ==
    [b EXCEPT !.x1 = width - b.x2, !.x2 = width - b.x1]

\* the forEach iteration drawing at the original coordinates whatever mirror is
DrawBoxUnmirrored(width, det, mir) ==
    [x1 |-> det.box.x1, y1 |-> det.box.y1, x2 |-> det.box.x2, y2 |-> det.box.y2,
     color |-> getConfidenceColor(det.confidence),
     label |-> <<det.class, ToFixed0Percent(det.confidence)>>]

\* one iteration of drawDetections' forEach: the stroked box and its label
DrawBox(width, det, mir) ==
    LET b == IF mir THEN MirrorX(width, det.box) ELSE det.box
    IN  [x1 |-> b.x1, y1 |-> b.y1, x2 |-> b.x2, y2 |-> b.y2,
         color |-> getConfidenceColor(det.confidence),
         label |-> <<det.class, ToFixed0Percent(det.confidence)>>]

\* drawDetections without the resize and clearRect: the boxes of the call
\* are drawn over what the canvas holds
drawDetectionsOver(width, height, detections, mir) ==
    [w |-> overlay.w, h |-> overlay.h,
     boxes |-> overlay.boxes
               \o [i \in 1..Len(detections) |-> DrawBox(width, detections[i], mir)]]

\* drawDetections(width, height, detections) on a mounted canvas, with the
\* mirror of the render the caller belongs to: resize (which clears), then draw
drawDetections(width, height, detections, mir) ==
    [w |-> width, h |-> height,
     boxes |-> [i \in 1..Len(detections) |-> DrawBox(width, detections[i], mir)]]

\* a timer fires and processLiveFrame returns before capturing: no video
\* element, or video.readyState < 2 (always so without a srcObject)
TickSkip(t) ==
    /\ t \in timers
    /\ lastOp' = "TickSkip"
    /\ toasted' = 0
    /\ drawn' = <<>>
    /\ UNCHANGED <<uploadVars, nConfig, mounted, page, liveRunning, liveFps, liveConf, mirror,
                   srcObject, overlay, intervalRef, timers, streams, starts,
                   requests, nStarts>>

\* processLiveFrame with an in-flight guard: a tick captures only when no
\* earlier call of processLiveFrame is unresolved
TickCaptureGuarded(t) ==
    /\ t \in timers
    /\ HasVideo /\ srcObject # 0
    /\ requests = {}
    /\ requests' = requests \cup {[id |-> NewRequestId, pc |-> "toBlob",
                                   conf |-> t.conf, mirror |-> t.mirror,
                                   frame |-> Frame,
                                   stopped |-> FALSE, sibFailed |-> FALSE]}
    /\ lastOp' = "TickCapture"
    /\ toasted' = 0
    /\ drawn' = <<>>
    /\ UNCHANGED <<uploadVars, nConfig, mounted, page, liveRunning, liveFps, liveConf,
                   mirror, srcObject, overlay, intervalRef, timers, streams,
                   starts, nStarts>>

\* a timer fires and processLiveFrame captures a frame of the video's
\* current videoWidth x videoHeight, up to await toBlob
TickCaptureOf(t, fr) ==
    /\ t \in timers
    /\ HasVideo /\ srcObject # 0
    /\ Cardinality(requests) < MaxInflight
    /\ requests' = requests \cup {[id |-> NewRequestId, pc |-> "toBlob",
                                   conf |-> t.conf, mirror |-> t.mirror,
                                   frame |-> fr,
                                   stopped |-> FALSE, sibFailed |-> FALSE]}
    /\ lastOp' = "TickCapture"
    /\ toasted' = 0
    /\ drawn' = <<>>
    /\ UNCHANGED <<uploadVars, nConfig, mounted, page, liveRunning, liveFps, liveConf, mirror,
                   srcObject, overlay, intervalRef, timers, streams, starts,
                   nStarts>>

\* the same with the camera of the session, which delivers Frame
TickCapture(t) == TickCaptureOf(t, Frame)

\* processLiveFrame treating a null blob as a failed detection call: the
\* catch block's showToast and stopLive
BlobNullThrows(r) ==
    /\ r \in requests /\ r.pc = "toBlob"
    /\ requests' = MarkStopped(MarkSiblings(requests \ {r}, r))
    /\ toasted' = 1
    /\ drawn' = <<>>
    /\ StopLive
    /\ lastOp' = "BlobNull"
    /\ UNCHANGED <<uploadVars, nConfig, mounted, page, liveFps, liveConf, mirror, starts, nStarts>>

\* toBlob yields null: processLiveFrame returns
BlobNull(r) ==
    /\ r \in requests /\ r.pc = "toBlob"
    /\ requests' = requests \ {r}
    /\ lastOp' = "BlobNull"
    /\ toasted' = 0
    /\ drawn' = <<>>
    /\ UNCHANGED <<uploadVars, nConfig, mounted, page, liveRunning, liveFps, liveConf, mirror,
                   srcObject, overlay, intervalRef, timers, streams, starts,
                   nStarts>>

\* toBlob yields the JPEG: fetch('/detect/live?conf=' + liveConf) is issued
BlobReady(r) ==
    /\ r \in requests /\ r.pc = "toBlob"
    /\ requests' = (requests \ {r}) \cup {[r EXCEPT !.pc = "fetch"]}
    /\ lastOp' = "BlobReady"
    /\ toasted' = 0
    /\ drawn' = <<>>
    /\ UNCHANGED <<uploadVars, nConfig, mounted, page, liveRunning, liveFps, liveConf, mirror,
                   srcObject, overlay, intervalRef, timers, streams, starts,
                   nStarts>>

\* the response is ok: drawDetections(w, h, data.detections || [])
ResponseOk(r, dets) ==
    /\ r \in requests /\ r.pc = "fetch"
    /\ requests' = requests \ {r}
    /\ overlay' = IF HasCanvas
                  THEN drawDetections(r.frame.w, r.frame.h, dets, r.mirror)
                  ELSE overlay
    /\ lastOp' = "ResponseOk"
    /\ toasted' = 0
    /\ drawn' = IF HasCanvas
                THEN <<[w |-> r.frame.w, h |-> r.frame.h, dets |-> dets,
                        mirror |-> r.mirror]>>
                ELSE <<>>
    /\ UNCHANGED <<uploadVars, nConfig, mounted, page, liveRunning, liveFps, liveConf, mirror,
                   srcObject, intervalRef, timers, streams, starts, nStarts>>

\* fetch or response.json() throws, or the response is not ok: the inner
\* catch block, showToast('Live detection error.') and stopLive()
ResponseFail(r) ==
    /\ r \in requests /\ r.pc = "fetch"
    /\ requests' = MarkStopped(MarkSiblings(requests \ {r}, r))
    /\ toasted' = 1
    /\ drawn' = <<>>
    /\ StopLive
    /\ lastOp' = "ResponseFail"
    /\ UNCHANGED <<uploadVars, nConfig, mounted, page, liveFps, liveConf, mirror, starts, nStarts>>

\* App unmounts (React 18): the refs of <video> and <canvas> are detached
\* when the elements are removed, then the passive cleanups run: stopLive()
\* of useEffect(() => () => stopLive(), []) and the cleanup of the
\* [liveFps, liveRunning] effect.  The component's state is gone afterwards.
Unmount ==
    /\ mounted
    /\ mounted' = FALSE
    /\ LET r == StopLiveRefs(timers, intervalRef, FALSE, FALSE)
       IN  /\ timers' = r.timers
           /\ intervalRef' = r.ref
           /\ streams' = r.streams
    /\ liveRunning' = FALSE
    /\ srcObject' = 0
    /\ overlay' = BlankCanvas
    /\ requests' = MarkStopped(requests)
    /\ lastOp' = "Unmount"
    /\ toasted' = 0
    /\ drawn' = <<>>
    /\ UNCHANGED <<uploadVars, nConfig, page, liveFps, liveConf, mirror, starts, nStarts>>

\* The files a user can pick or drop: File.type and File.size in bytes
MaxSize == 5 * 1024 * 1024
FileTypes == {"image/jpeg", "image/png", "image/bmp", "image/gif", ""}
FileSizes == {MaxSize - 1, MaxSize, MaxSize + 1}
Files == [type : FileTypes, size : FileSizes]

\* handleFileChange's allowedTypes
AllowedTypes == {"image/jpeg", "image/png", "image/bmp"}

\* the upload form is rendered
HasForm == mounted /\ page = "upload"

\* handleFileChange (file input or handleDrop) returning at one of its two
\* validations: setError and nothing else
FileReject(f) ==
    /\ HasForm
    /\ f.type \notin AllowedTypes \/ f.size > MaxSize
    /\ error' = IF f.type \notin AllowedTypes
                THEN "Invalid file type. Please upload a JPG, PNG, or BMP image."
                ELSE "Image size is too large. Maximum size is 5MB."
    /\ lastOp' = "FileReject"
    /\ toasted' = 0
    /\ drawn' = <<>>
    /\ UNCHANGED <<mounted, page, liveVars, file, preview, loading, result,
                   uploads>>

\* handleFileChange taking every file: no validation
FileAcceptAny(f) ==
    /\ HasForm
    /\ file' = <<f>>
    /\ preview' = <<f>>
    /\ error' = ""
    /\ result' = <<>>
    /\ lastOp' = "FileAccept"
    /\ toasted' = 0
    /\ drawn' = <<>>
    /\ UNCHANGED <<mounted, page, liveVars, loading, uploads>>

\* handleFileChange past both validations: setFile, setPreview, setError(''),
\* setResult(null)
FileAccept(f) ==
    /\ HasForm
    /\ f.type \in AllowedTypes /\ ~(f.size > MaxSize)
    /\ file' = <<f>>
    /\ preview' = <<f>>
    /\ error' = ""
    /\ result' = <<>>
    /\ lastOp' = "FileAccept"
    /\ toasted' = 0
    /\ drawn' = <<>>
    /\ UNCHANGED <<mounted, page, liveVars, loading, uploads>>

\* Detect button (enabled while file && !loading): handleSubmit up to its
\* await fetch(POST /detect) with the file of this render
Submit ==
    /\ HasForm
    /\ file # <<>> /\ ~loading
    /\ loading' = TRUE
    /\ error' = ""
    /\ uploads' = uploads \cup {[file |-> file[1]]}
    /\ lastOp' = "Submit"
    /\ toasted' = 0
    /\ drawn' = <<>>
    /\ UNCHANGED <<mounted, page, liveVars, file, preview, result>>

\* handleSubmit on a submit event that finds no file (the Detect button is
\* disabled then, so the event comes from elsewhere): setError and return
SubmitEmpty ==
    /\ HasForm
    /\ file = <<>>
    /\ error' = "Please select an image file"
    /\ lastOp' = "SubmitEmpty"
    /\ toasted' = 0
    /\ drawn' = <<>>
    /\ UNCHANGED <<mounted, page, liveVars, file, preview, loading, result,
                   uploads>>

\* the response is ok: setResult(data), finally setLoading(false); the
\* setters do nothing once the component is unmounted
UploadOk(u, dets) ==
    /\ u \in uploads
    /\ uploads' = uploads \ {u}
    /\ result' = IF mounted THEN <<[file |-> u.file, detections |-> dets]>>
                 ELSE result
    /\ loading' = IF mounted THEN FALSE ELSE loading
    /\ lastOp' = "UploadOk"
    /\ toasted' = 0
    /\ drawn' = <<>>
    /\ UNCHANGED <<mounted, page, liveVars, file, preview, error>>

\* handleSubmit without its finally block: a failed request leaves loading set
UploadFailKeepsLoading(u) ==
    /\ u \in uploads
    /\ uploads' = uploads \ {u}
    /\ error' = IF mounted THEN "Error detecting objects" ELSE error
    /\ lastOp' = "UploadFail"
    /\ toasted' = 0
    /\ drawn' = <<>>
    /\ UNCHANGED <<mounted, page, liveVars, file, preview, loading, result>>

\* handleSubmit's catch block raising a toast beside the inline error
UploadFailToasts(u) ==
    /\ u \in uploads
    /\ uploads' = uploads \ {u}
    /\ error' = IF mounted THEN "Error detecting objects" ELSE error
    /\ loading' = IF mounted THEN FALSE ELSE loading
    /\ lastOp' = "UploadFail"
    /\ toasted' = 1
    /\ drawn' = <<>>
    /\ UNCHANGED <<mounted, page, liveVars, file, preview, result>>

\* fetch or response.json() throws, or the response is not ok:
\* setError(err.message), finally setLoading(false)
UploadFail(u) ==
    /\ u \in uploads
    /\ uploads' = uploads \ {u}
    /\ error' = IF mounted THEN "Error detecting objects" ELSE error
    /\ loading' = IF mounted THEN FALSE ELSE loading
    /\ lastOp' = "UploadFail"
    /\ toasted' = 0
    /\ drawn' = <<>>
    /\ UNCHANGED <<mounted, page, liveVars, file, preview, result>>

\* Reset button (enabled while file || result): handleReset
Reset ==
    /\ HasForm
    /\ file # <<>> \/ result # <<>>
    /\ file' = <<>>
    /\ preview' = <<>>
    /\ result' = <<>>
    /\ error' = ""
    /\ lastOp' = "Reset"
    /\ toasted' = 0
    /\ drawn' = <<>>
    /\ UNCHANGED <<mounted, page, liveVars, loading, uploads>>

Next ==
    \/ \E p \in Pages : SetPage(p)
    \/ \E f \in FpsValues : SetFps(f)
    \/ \E c \in ConfValues : SetConf(c)
    \/ \E b \in BOOLEAN : SetMirror(b)
    \/ StartClick
    \/ \E s \in starts : GetUserMediaReject(s)
    \/ \E s \in starts : GetUserMediaAttach(s)
    \/ \E s \in starts : GetUserMediaDetached(s)
    \/ \E s \in starts : PlayResolve(s)
    \/ \E s \in starts : PlayReject(s)
    \/ StopClick
    \/ \E t \in timers : TickSkip(t)
    \/ \E t \in timers : TickCapture(t)
    \/ \E r \in requests : BlobNull(r)
    \/ \E r \in requests : BlobReady(r)
    \/ \E r \in requests, dets \in DetectionLists : ResponseOk(r, dets)
    \/ \E r \in requests : ResponseFail(r)
    \/ Unmount

Spec == Init /\ [][Next]_vars

\* The FPS slider over its whole range, min 1 to max 10 in steps of 1
FpsSlider == 1..10

\* The session driven over the whole range of the FPS slider: start, stop
\* and slider moves, without detection requests
IntervalNext ==
    \/ \E p \in Pages : SetPage(p)
    \/ \E f \in FpsSlider : SetFps(f)
    \/ StartClick
    \/ \E s \in starts : GetUserMediaAttach(s)
    \/ \E s \in starts : PlayResolve(s)
    \/ StopClick

IntervalSpec == Init /\ [][IntervalNext]_vars

\* Frame sizes of the cameras probed, and the detections a /detect/live
\* response may carry for them: the sample, and boxes with
\* 0 <= x1 <= x2 <= 320 and confidences at and next to the thresholds of
\* the colours and at a half percent
ProbeFrames == {Frame, [w |-> 320, h |-> 240]}
ProbeXs == {0, 100, 320}
ProbeConfidences == {400, 401, 700, 701, 855}
ProbeBox(a, b, c) ==
    [box |-> [x1 |-> a, y1 |-> 50, x2 |-> b, y2 |-> 150],
     class |-> "person", confidence |-> c]
ProbeDets ==
    {ProbeBox(t[1], t[2], 855) : t \in {u \in ProbeXs \X ProbeXs : u[1] <= u[2]}}
        \cup {ProbeBox(100, 320, c) : c \in ProbeConfidences}
ProbeLists ==
    {<<>>, <<SampleDet>>, <<SampleDet, ProbeBox(0, 100, 400)>>}
        \cup {<<d>> : d \in ProbeDets}

\* One live session over the probed cameras and responses
DrawNext ==
    \/ \E p \in Pages : SetPage(p)
    \/ \E b \in BOOLEAN : SetMirror(b)
    \/ StartClick
    \/ \E s \in starts : GetUserMediaAttach(s)
    \/ \E s \in starts : PlayResolve(s)
    \/ \E t \in timers, fr \in ProbeFrames : TickCaptureOf(t, fr)
    \/ \E r \in requests : BlobReady(r)
    \/ \E r \in requests, dets \in ProbeLists : ResponseOk(r, dets)

DrawSpec == Init /\ [][DrawNext]_vars

\* The upload form: choosing, submitting and resetting, the responses of
\* POST /detect, page switches and the unmount
UploadNext ==
    \/ \E p \in Pages : SetPage(p)
    \/ \E f \in Files : FileReject(f)
    \/ \E f \in Files : FileAccept(f)
    \/ Submit
    \/ \E u \in uploads, dets \in DetectionLists : UploadOk(u, dets)
    \/ \E u \in uploads : UploadFail(u)
    \/ Reset
    \/ Unmount

UploadSpec == Init /\ [][UploadNext]_vars

\* The promise of fetch settles: a response arrives or the request fails
Respond ==
    \E u \in uploads :
        \/ \E dets \in DetectionLists : UploadOk(u, dets)
        \/ UploadFail(u)

\* The upload form with every entry of handleSubmit, and every request
\* answered or failed in the end
UploadFairNext ==
    \/ \E p \in Pages : SetPage(p)
    \/ \E f \in Files : FileReject(f)
    \/ \E f \in Files : FileAccept(f)
    \/ Submit
    \/ SubmitEmpty
    \/ Respond
    \/ Reset
    \/ Unmount

UploadFairSpec == Init /\ [][UploadFairNext]_vars /\ WF_vars(Respond)

\* An upload in flight beside a live session: the user submits a file,
\* switches to the Live page and runs a session while the response is awaited
BesideNext ==
    \/ \E p \in Pages : SetPage(p)
    \/ \E f \in Files : FileAccept(f)
    \/ Submit
    \/ \E u \in uploads, dets \in DetectionLists : UploadOk(u, dets)
    \/ \E u \in uploads : UploadFail(u)
    \/ StartClick
    \/ \E s \in starts : GetUserMediaAttach(s)
    \/ \E s \in starts : PlayResolve(s)
    \/ \E t \in timers : TickCapture(t)
    \/ \E r \in requests : BlobReady(r)
    \/ \E r \in requests, dets \in DetectionLists : ResponseOk(r, dets)

BesideSpec == Init /\ [][BesideNext]_vars

\* ------------------------------------------------------------------ claims

\* C1: when stopLive has returned, no interval timer created by the session
\* is still active (so no timer can invoke processLiveFrame).
C1_NoTimerAfterStop ==
    lastOp \in {"StopClick", "ResponseFail", "Unmount"} => timers = {}

\* C2: the response of a request whose session was stopped after the request
\* was issued is discarded: it leaves the overlay as it is, raises no toast
\* and leaves liveRunning as it is.
C2_LateResponseDiscarded ==
    [][\A r \in requests :
          (r.stopped /\ r.pc = "fetch" /\ r \notin requests')
              => (overlay' = overlay /\ toasted' = 0
                  /\ liveRunning' = liveRunning)]_vars

\* C3: after an fps change while Running, and after the start whose timer the
\* effect replaces, exactly one interval timer is active, it is the one
\* intervalRef holds, and its interval is the one computed from liveFps.
C3_OneTimerAtNewFps ==
    (liveRunning /\ lastOp \in {"SetFps", "PlayResolve", "GetUserMediaDetached"})
        => /\ Cardinality(timers) = 1
           /\ \A t \in timers : t.id = intervalRef /\ t.ms = Interval(liveFps)

\* C4: a request issued by a tick carries the liveConf that is current when
\* the tick fires, and a render draws with the mirror that is current when
\* it happens.
C4_ConfigAppliesToNextTick ==
    [][/\ lastOp' = "TickCapture"
            => \A r \in requests' \ requests : r.conf = liveConf
       /\ (lastOp' = "ResponseOk" /\ HasCanvas)
            => \E dets \in DetectionLists :
                   overlay' = drawDetections(Frame.w, Frame.h, dets, mirror)
      ]_vars

\* C5: a session raises exactly one error toast however many of its requests
\* fail: the failure of a request of a session that has already raised its
\* toast raises none.
C5_OneToastPerSession ==
    [][\A r \in requests :
          (r.sibFailed /\ r.pc = "fetch" /\ r \notin requests')
              => toasted' = 0]_vars

\* C6: when the session is Idle and no start is pending, no acquired camera
\* stream has live tracks.
C6_NoLeakWhenIdle ==
    (mounted /\ ~liveRunning /\ starts = {}) => streams = {}

\* C7: after unmount, once nothing of the session is pending any more, no
\* camera stream has live tracks and no interval timer is active.
C7_TeardownReleases ==
    (~mounted /\ starts = {} /\ requests = {})
        => (streams = {} /\ timers = {})

\* C8: at most one acquired camera stream with live tracks exists.
C8_SingleStream == Cardinality(streams) <= 1

\* C9 (as claimed): at most one detection request of the running session is
\* outstanding.
C9_AtMostOneOutstanding ==
    Cardinality({r \in requests : ~r.stopped}) <= 1

\* C9 (amended): there is no in-flight guard.  A tick on a video that has a
\* stream can capture and issue a request whatever number of earlier calls is
\* unresolved (below the model's cap MaxInflight).
C9_NoInFlightGuard ==
    \A t \in timers :
        (HasVideo /\ srcObject # 0 /\ Cardinality(requests) < MaxInflight)
            => ENABLED TickCapture(t)

C9_Witness ==
    /\ lastOp = "TickCapture"
    /\ liveRunning
    /\ Cardinality({r \in requests : ~r.stopped}) = 2

\* C10: when getUserMedia rejects, that start is over: the session is Idle,
\* the step creates no interval timer and acquires no stream, and exactly one
\* toast is raised.
C10_AcquireFailureFailsStart ==
    [][lastOp' = "GetUserMediaReject"
          => /\ ~liveRunning'
             /\ toasted' = 1
             /\ timers' \subseteq timers
             /\ streams' = streams
             /\ Cardinality(starts') = Cardinality(starts) - 1]_vars

C10_Witness ==
    /\ lastOp = "GetUserMediaReject"
    /\ nStarts = 1
    /\ ~liveRunning /\ toasted = 1
    /\ timers = {} /\ streams = {} /\ starts = {}


C12_NotReadyIsSkipped ==
    [][lastOp' \in {"TickSkip", "BlobNull"}
          => /\ {r \in requests' : r.pc = "fetch"}
                    = {r \in requests : r.pc = "fetch"}
             /\ liveRunning' = liveRunning
             /\ intervalRef' = intervalRef /\ timers' = timers
             /\ streams' = streams /\ srcObject' = srcObject
             /\ overlay' = overlay
             /\ toasted' = 0]_vars

C12_Witness ==
    /\ lastOp = "BlobNull"
    /\ liveRunning /\ timers # {} /\ srcObject # 0
    /\ overlay.boxes # <<>>

\* C13: stop is idempotent: a stopLive that runs directly after another
\* stopLive (the catch block of a late response, after Stop Live or after
\* another failed response) changes nothing, and afterwards the session is
\* Idle, no interval timer exists, no stream is live and the overlay is clear.
\* The toast of that step is the catch block's showToast, not stopLive's.
C13_StopIsIdempotent ==
    [][(lastOp \in {"StopClick", "ResponseFail"} /\ lastOp' = "ResponseFail")
          => /\ liveRunning' = liveRunning /\ ~liveRunning'
             /\ intervalRef' = intervalRef /\ timers' = timers
             /\ streams' = streams /\ srcObject' = srcObject
             /\ overlay' = overlay
             /\ timers' = {} /\ streams' = {}
             /\ (HasCanvas => overlay'.boxes = <<>>)]_vars

\* C14: when Stop Live is clicked on a Running session, on return of
\* stopLive no interval timer is pending, no track of a camera stream is
\* live, the video has no srcObject, the overlay is clear and the session is
\* Idle.
C14_StopReleasesAll ==
    lastOp = "StopClick"
        => /\ ~liveRunning
           /\ timers = {} /\ intervalRef = 0
           /\ streams = {} /\ srcObject = 0
           /\ overlay.boxes = <<>>

\* C15: for every fps of the slider (1 to 10) the interval of a timer is
\* max(100, round(1000 / fps)), round being the nearest integer: 1000 at
\* fps 1, 500 at fps 2, 100 at fps 10; the timer a slider move creates on a
\* running session has the interval of the new fps; and the interval is
\* never below 100, whatever number fps is.
C15_IntervalFormula ==
    LET Nearest(f) ==
            CHOOSE r \in {1000 \div f, 1000 \div f + 1} :
                2 * r * f - f <= 2000 /\ 2000 < 2 * r * f + f
        Expected(f) == IF Nearest(f) > 100 THEN Nearest(f) ELSE 100
    IN  /\ \A t \in timers : \E f \in FpsSlider : t.ms = Expected(f)
        /\ (lastOp = "SetFps" /\ liveRunning)
               => \E t \in timers : t.id = intervalRef /\ t.ms = Expected(liveFps)
        /\ \A f \in FpsSlider : Interval(f) = Expected(f)
        /\ Interval(1) = 1000 /\ Interval(2) = 500 /\ Interval(10) = 100
        /\ \A f \in -3..300 : Interval(f) >= 100

C15_Witness ==
    /\ lastOp = "SetFps" /\ liveRunning /\ liveFps = 6
    /\ \E t \in timers : t.id = intervalRef /\ t.ms = 167

\* C16: the mirror transform is its own inverse: for the frame width and
\* every box of a render, the mirrored box has x1' = width - x2 and
\* x2' = width - x1, mirroring it again gives the original box, and mirroring
\* the box drawn by a mirrored render gives the box of the response.
C16_MirrorIsInvolution ==
    drawn # <<>> =>
        LET d == drawn[1]
        IN  \A i \in 1..Len(d.dets) :
                LET b == d.dets[i].box
                    o == overlay.boxes[i]
                    ob == [x1 |-> o.x1, y1 |-> o.y1, x2 |-> o.x2, y2 |-> o.y2]
                IN  /\ MirrorX(d.w, b).x1 = d.w - b.x2
                    /\ MirrorX(d.w, b).x2 = d.w - b.x1
                    /\ MirrorX(d.w, MirrorX(d.w, b)) = b
                    /\ d.mirror => MirrorX(d.w, ob) = b

C16_Witness ==
    /\ lastOp = "ResponseOk" /\ drawn # <<>>
    /\ drawn[1].mirror /\ drawn[1].w = 320
    /\ drawn[1].dets = <<ProbeBox(0, 100, 855)>>
    /\ overlay.boxes[1].x1 = 220 /\ overlay.boxes[1].x2 = 320

\* C17: the colour of a detection has strict lower bounds: above 0.7 green,
\* above 0.4 and at most 0.7 yellow, at most 0.4 red; so 0.71 is green, 0.70
\* yellow, 0.41 yellow and 0.40 red.  The boxes of the live overlay, the
\* confidence bars of the upload result view and the upload-only component
\* use that same mapping.
C17_ConfidenceBuckets ==
    LET Bucket(c) == IF c > 700 THEN "#28a745"
                     ELSE IF c > 400 /\ c <= 700 THEN "#ffc107"
                     ELSE "#dc3545"
    IN  /\ getConfidenceColor(710) = "#28a745"
        /\ getConfidenceColor(700) = "#ffc107"
        /\ getConfidenceColor(410) = "#ffc107"
        /\ getConfidenceColor(400) = "#dc3545"
        /\ drawn # <<>> =>
              \A i \in 1..Len(drawn[1].dets) :
                  LET det == drawn[1].dets[i]
                  IN  /\ overlay.boxes[i].color = Bucket(det.confidence)
                      /\ ConfidenceFillColor(det) = Bucket(det.confidence)
                      /\ getConfidenceColorAppJs(det.confidence)
                             = Bucket(det.confidence)

C17_Witness ==
    /\ lastOp = "ResponseOk" /\ drawn # <<>>
    /\ Len(drawn[1].dets) = 1
    /\ drawn[1].dets[1].confidence = 700
    /\ overlay.boxes[1].color = "#ffc107"

\* C18: a render draws each detection as a box in the colour of its
\* confidence, labelled with the class and the confidence as a whole percent.
\* With mirror on the box is at x1' = width - x2, x2' = width - x1 and the same
\* y; with mirror off at the coordinates of the response.  On a 640x480 frame
\* with mirror on, the person box x1 = 100, x2 = 200 of confidence 0.85 is
\* drawn from 440 to 540 in green, labelled 'person 85%'.
C18_RenderedBox ==
    drawn # <<>> =>
        LET d == drawn[1]
            WholePercent(c) ==
                CHOOSE q \in {c \div 10, c \div 10 + 1} :
                    10 * q - 5 <= c /\ c < 10 * q + 5
        IN  /\ \A i \in 1..Len(d.dets) :
                   LET det == d.dets[i]
                       o == overlay.boxes[i]
                   IN  /\ o.x1 = IF d.mirror THEN d.w - det.box.x2 ELSE det.box.x1
                       /\ o.x2 = IF d.mirror THEN d.w - det.box.x1 ELSE det.box.x2
                       /\ o.y1 = det.box.y1 /\ o.y2 = det.box.y2
                       /\ o.color = getConfidenceColor(det.confidence)
                       /\ o.label = <<det.class, WholePercent(det.confidence)>>
            /\ (d.w = 640 /\ d.h = 480 /\ d.mirror /\ d.dets = <<SampleDet>>)
                   => overlay.boxes
                        = <<[x1 |-> 440, y1 |-> 50, x2 |-> 540, y2 |-> 150,
                             color |-> "#28a745", label |-> <<"person", 85>>]>>

C18_Witness ==
    /\ lastOp = "ResponseOk" /\ drawn # <<>>
    /\ drawn[1] = [w |-> 640, h |-> 480, dets |-> <<SampleDet>>, mirror |-> TRUE]
    /\ overlay.boxes[1].x1 = 440 /\ overlay.boxes[1].label = <<"person", 85>>

\* C19: each render replaces the overlay: after a drawDetections call the
\* canvas has the width and height of that call's frame and holds the boxes
\* of that call's detections, one per detection in order, and nothing else; a
\* render with no detection leaves the canvas empty.
C19_RenderReplacesOverlay ==
    drawn # <<>> =>
        LET d == drawn[1]
        IN  /\ overlay.w = d.w /\ overlay.h = d.h
            /\ Len(overlay.boxes) = Len(d.dets)
            /\ \A i \in 1..Len(d.dets) :
                   overlay.boxes[i] = DrawBox(d.w, d.dets[i], d.mirror)
            /\ d.dets = <<>> => overlay.boxes = <<>>

C19_Witness ==
    /\ lastOp = "ResponseOk" /\ drawn # <<>>
    /\ drawn[1].dets = <<>> /\ drawn[1].w = 320
    /\ overlay = [w |-> 320, h |-> 240, boxes |-> <<>>]

\* C20: upload validation comes before any network call: a file whose type
\* is not image/jpeg, image/png or image/bmp, or whose size is above 5 MiB,
\* sets an error message, does not become the selected file and issues no
\* request; a file of an allowed type of exactly 5 MiB can be selected; and
\* the selected file and the file of every POST /detect passed both checks.
C20_ValidatedBeforeUpload ==
    LET Passes(f) ==
            /\ f.type \in {"image/jpeg", "image/png", "image/bmp"}
            /\ f.size <= 5242880
    IN  /\ file # <<>> => Passes(file[1])
        /\ \A u \in uploads : Passes(u.file)
        /\ lastOp = "FileReject" => error # ""
        /\ \A f \in Files :
               /\ ~Passes(f) => ~ENABLED FileAccept(f)
               /\ (HasForm /\ ~Passes(f))
                      => /\ ENABLED FileReject(f)
                         /\ file # <<f>>
                         /\ \A u \in uploads : u.file # f
               /\ (HasForm /\ Passes(f)) => ENABLED FileAccept(f)
        /\ HasForm => ENABLED FileAccept([type |-> "image/png", size |-> 5242880])

C20_Witness ==
    /\ lastOp = "FileReject"
    /\ error = "Image size is too large. Maximum size is 5MB."
    /\ file = <<[type |-> "image/png", size |-> 5242880]>>
    /\ uploads = {[file |-> [type |-> "image/png", size |-> 5242880]]}

\* C21: a failed static upload is reported inline only: the step sets the
\* form's error message and clears loading, raises no toast, and leaves the
\* live session's flag, timers, stream, overlay and configuration (and every
\* other part of the live section) as they were.
C21_UploadFailureInlineOnly ==
    [][lastOp' = "UploadFail"
          => /\ mounted => (error' # "" /\ ~loading')
             /\ toasted' = 0
             /\ liveRunning' = liveRunning
             /\ intervalRef' = intervalRef /\ timers' = timers
             /\ streams' = streams /\ srcObject' = srcObject
             /\ overlay' = overlay
             /\ liveFps' = liveFps /\ liveConf' = liveConf /\ mirror' = mirror
             /\ UNCHANGED liveVars]_vars

C21_Witness ==
    /\ lastOp = "UploadFail"
    /\ error = "Error detecting objects" /\ ~loading
    /\ liveRunning /\ timers # {} /\ streams # {}
    /\ overlay.boxes # <<>>

\* C22: the live configuration survives start/stop cycles: no step other
\* than a move of the FPS, Conf or Mirror control changes liveFps, liveConf or
\* mirror, each control changes its own value only, and when a session starts
\* (liveRunning turns true) the timer it runs on has the interval of the fps
\* last set and the threshold and mirror last set.
C22_ConfigSurvives ==
    [][/\ lastOp' # "SetFps" => liveFps' = liveFps
       /\ lastOp' # "SetConf" => liveConf' = liveConf
       /\ lastOp' # "SetMirror" => mirror' = mirror
       /\ (~liveRunning /\ liveRunning')
              => \E t \in timers' :
                     /\ t.id = intervalRef'
                     /\ t.ms = Interval(liveFps')
                     /\ t.conf = liveConf' /\ t.mirror = mirror']_vars

\* a second session, started after the first was stopped (a request of the
\* first is still outstanding), on values set by the user
C22_Witness ==
    /\ lastOp = "PlayResolve" /\ liveRunning
    /\ nStarts = 2 /\ starts = {} /\ streams = {srcObject}
    /\ \E r \in requests : r.stopped
    /\ liveFps = 10 /\ liveConf = 50
    /\ timers = {[id |-> intervalRef, ms |-> 100, conf |-> 50, mirror |-> TRUE]}

\* C23: a late result of an earlier session never affects a later one: when
\* the response of a request that was in flight at a stopLive arrives while
\* a session is running, the step leaves the session running with its timers
\* and stream, raises no toast and draws nothing on the overlay.
C23_LateResultHarmless ==
    [][\A r \in requests :
           (r.stopped /\ r.pc = "fetch" /\ r \notin requests' /\ liveRunning)
               => /\ liveRunning'
                  /\ intervalRef' = intervalRef /\ timers' = timers
                  /\ streams' = streams /\ srcObject' = srcObject
                  /\ toasted' = 0
                  /\ overlay' = overlay]_vars

\* C24: outside a start in progress (stopLive is a single step) the session
\* flag and its resources agree: liveRunning is true if and only if exactly
\* one interval timer is active and the mounted video element holds a camera
\* stream whose tracks are live.
C24_FlagMatchesResources ==
    (mounted /\ starts = {})
        => (liveRunning
              <=> /\ Cardinality(timers) = 1
                  /\ HasVideo /\ srcObject # 0 /\ srcObject \in streams)

\* C25: moving the FPS slider while the session is not running creates no
\* timer and leaves the session Idle, and the start that follows runs on a
\* timer whose interval is computed from the fps last set.
C25_FpsChangeWhileIdle ==
    [][/\ (lastOp' = "SetFps" /\ ~liveRunning)
              => /\ ~liveRunning'
                 /\ timers' = timers /\ intervalRef' = intervalRef
       /\ (~liveRunning /\ liveRunning')
              => \E t \in timers' :
                     t.id = intervalRef' /\ t.ms = Interval(liveFps')]_vars

\* the slider was moved to 6 before the only start, which now runs
C25_Witness ==
    /\ lastOp = "PlayResolve" /\ liveRunning
    /\ nStarts = 1 /\ nConfig = 1 /\ liveFps = 6
    /\ timers = {[id |-> intervalRef, ms |-> 167, conf |-> 25, mirror |-> TRUE]}

\* C26: the mirror transform preserves box validity: for every box of a
\* render with 0 <= x1 <= x2 <= width, the mirrored box has
\* 0 <= x1' <= x2' <= width, the same width x2' - x1' = x2 - x1 and the same
\* y1 and y2; so has the box a mirrored render draws.
C26_MirrorKeepsValidity ==
    drawn # <<>> =>
        LET d == drawn[1]
        IN  \A i \in 1..Len(d.dets) :
                LET b == d.dets[i].box
                    m == MirrorX(d.w, b)
                    o == overlay.boxes[i]
                IN  (0 <= b.x1 /\ b.x1 <= b.x2 /\ b.x2 <= d.w)
                        => /\ 0 <= m.x1 /\ m.x1 <= m.x2 /\ m.x2 <= d.w
                           /\ m.x2 - m.x1 = b.x2 - b.x1
                           /\ m.y1 = b.y1 /\ m.y2 = b.y2
                           /\ d.mirror
                                  => /\ 0 <= o.x1 /\ o.x1 <= o.x2 /\ o.x2 <= d.w
                                     /\ o.x2 - o.x1 = b.x2 - b.x1
                                     /\ o.y1 = b.y1 /\ o.y2 = b.y2

C26_Witness ==
    /\ lastOp = "ResponseOk" /\ drawn # <<>>
    /\ drawn[1].mirror /\ drawn[1].w = 640
    /\ drawn[1].dets = <<ProbeBox(100, 320, 855)>>
    /\ overlay.boxes[1].x1 = 320 /\ overlay.boxes[1].x2 = 540
    /\ overlay.boxes[1].y1 = 50 /\ overlay.boxes[1].y2 = 150

\* C27: the displayed upload result belongs to the currently selected file:
\* while the form is mounted, a result that is set is the response to a
\* request submitted for the file that is selected now; after Reset or after
\* another file is selected no result of an earlier submission appears.
C27_ResultOfCurrentFile ==
    (mounted /\ result # <<>>)
        => /\ file # <<>>
           /\ result[1].file = file[1]

\* C28: every upload submission ends with loading cleared.  A submit with no
\* file selected sets an error and issues no request.  Otherwise, while the
\* form is mounted, loading is true exactly while the request is in flight:
\* the submit sets it and issues one request for the selected file, an ok
\* response clears it and sets the result (not the error), a failure clears
\* it and sets the error (not the result), and one of the two happens.
C28_SubmitTerminates ==
    /\ [](mounted => (loading <=> uploads # {}))
    /\ [][/\ lastOp' = "SubmitEmpty"
                 => /\ error' # "" /\ uploads' = uploads
                    /\ loading' = loading /\ result' = result
          /\ lastOp' = "Submit"
                 => /\ file # <<>> /\ ~loading /\ loading'
                    /\ uploads' = uploads \cup {[file |-> file[1]]}
                    /\ uploads' # uploads
          /\ (lastOp' = "UploadOk" /\ mounted)
                 => /\ loading /\ ~loading'
                    /\ result' # <<>> /\ error' = error
          /\ (lastOp' = "UploadFail" /\ mounted)
                 => /\ loading /\ ~loading'
                    /\ error' # "" /\ result' = result]_vars
    /\ (mounted /\ loading) ~> (~mounted \/ ~loading)

C28_Witness ==
    /\ lastOp = "UploadFail" /\ mounted
    /\ ~loading /\ uploads = {}
    /\ error = "Error detecting objects" /\ result = <<>>
    /\ file # <<>>

====
